---- MODULE Spec2Model ----
(***************************************************************************)
(* Minesweeper: the Board (board.cpp, cell.h) and the handlers of the      *)
(* MinesweeperWindow that drive it (minesweeperwindow.cpp).                *)
(*                                                                         *)
(* The program is single-threaded.  pc is the position of the one thread: *)
(* "idle" is the Qt event loop waiting for a click; every other value is a *)
(* position inside a handler, and only that handler's next step is         *)
(* enabled there.                                                          *)
(***************************************************************************)
EXTENDS Integers, Sequences, FiniteSets, TLC

\* ---- bounds of the model ------------------------------------------------
\* Largest number of cells (width * height) of a board.
MaxCells == 4
\* Largest number of cells that carry a Flag or Question mark at one time.
MaxMarked == 2
\* Largest board (in cells) on which runs of right clicks are recorded in streak.
MaxStreakCells == 3
\* Largest excess of the mine count over the number of cells (InitAny only).
MaxExcess == 1
\* Largest board (in cells) whose Board methods are called directly (SpecBoard).
MaxBoardCells == 3
\* Largest number of marked cells on such a board.
MaxBoardMarked == 1
\* Largest width and height of a board whose mines are counted (SpecCount).
MaxSide == 3

VARIABLES
    m_width,      \* Board::m_width
    m_height,     \* Board::m_height
    m_mineCount,  \* Board::m_mineCount
    m_cells,      \* Board::m_cells, indexed by <<row, col>>
    pc,           \* position of the thread
    placed,       \* local `placed` of Board::initialize
    q,            \* local work queue `q` of cascadeReveal
    won,          \* argument of gameOver(bool won)
    cmd,          \* the click being handled: [op, r, c]
    pre,          \* m_cells as it was when the click arrived
    dirty,        \* initialize() began on a board with revealed and marked cells
    streak,       \* the run of right clicks on one cell now under way: [cell, n, start]
    pushed,       \* per cell: q.push calls during the click being handled
    revealCalls,  \* per cell: setRevealed(.., true) calls of revealCell and cascadeReveal
                  \* during the click being handled
    ret,          \* what the last direct call of a Board method did: [status, value]
    everFlagged   \* some cell was given the mark Flag since initialize() last began

vars == <<m_width, m_height, m_mineCount, m_cells, pc, placed, q, won,
          cmd, pre, dirty, streak, pushed, revealCalls, ret, everFlagged>>

\* ---- cell.h --------------------------------------------------------------
MarkState == {"None", "Flag", "Question"}

\* Cell::Cell()
DefaultCell == [hasMine |-> FALSE, revealed |-> FALSE, mark |-> "None"]

\* reset() that leaves m_revealed as it is.
ResetCell_KeepsRevealed(cell) == [cell EXCEPT !.hasMine = FALSE, !.mark = "None"]

\* Cell::reset()
ResetCell(cell) == [cell EXCEPT !.hasMine = FALSE, !.revealed = FALSE, !.mark = "None"]

\* ---- board.cpp -----------------------------------------------------------
Coords(h, w) == (0 .. h - 1) \X (0 .. w - 1)

Pos == Coords(m_height, m_width)

\* Board::inBounds
inBounds(row, col) == row >= 0 /\ row < m_height /\ col >= 0 /\ col < m_width

\* Offsets with the skip of dr == 0 && dc == 0 left out.
Offsets_WithSelf == << <<-1, -1>>, <<-1, 0>>, <<-1, 1>>,
                       << 0, -1>>, << 0, 0>>, << 0, 1>>,
                       << 1, -1>>, << 1, 0>>, << 1, 1>> >>

\* The (dr, dc) pairs in the order the two nested loops produce them,
\* (0, 0) skipped.
Offsets == << <<-1, -1>>, <<-1, 0>>, <<-1, 1>>,
              << 0, -1>>,            << 0, 1>>,
              << 1, -1>>, << 1, 0>>, << 1, 1>> >>

RECURSIVE CountFrom(_, _, _, _)
CountFrom(cells, row, col, i) ==
    IF i > Len(Offsets) THEN 0
    ELSE LET rr == row + Offsets[i][1]
             cc == col + Offsets[i][2]
         IN  (IF inBounds(rr, cc) /\ cells[<<rr, cc>>].hasMine THEN 1 ELSE 0)
             + CountFrom(cells, row, col, i + 1)

\* Board::neighborMineCount
neighborMineCount(cells, row, col) == CountFrom(cells, row, col, 1)

\* allNonMinesRevealed without the test of hasMine(): mines must be revealed too.
allNonMinesRevealed_AllCells(cells) == \A p \in DOMAIN cells : cells[p].revealed

\* Board::allNonMinesRevealed
allNonMinesRevealed(cells) ==
    ~ \E p \in DOMAIN cells : ~cells[p].hasMine /\ ~cells[p].revealed

\* ---- ghost values --------------------------------------------------------
NoCmd == [op |-> "none", r |-> 0, c |-> 0]
NoCounts == [p \in Pos |-> 0]
NoStreak == [cell |-> <<0, 0>>, n |-> 0, start |-> "None"]
NoRet == [status |-> "none", value |-> 0]
Marked(cells) == {p \in DOMAIN cells : cells[p].mark # "None"}

\* ---- construction --------------------------------------------------------
\* Board::Board followed by the window constructor's call of initialize().
Init ==
    /\ m_width \in 1 .. MaxCells
    /\ m_height \in 1 .. MaxCells
    /\ m_width * m_height <= MaxCells
    /\ m_mineCount \in 0 .. (m_width * m_height - 1)
    /\ m_cells = [p \in Coords(m_height, m_width) |-> DefaultCell]
    /\ pc = "initialize"
    /\ placed = 0
    /\ q = << >>
    /\ won = FALSE
    /\ cmd = NoCmd
    /\ pre = [p \in Coords(m_height, m_width) |-> DefaultCell]
    /\ dirty = FALSE
    /\ streak = NoStreak
    /\ pushed = [p \in Coords(m_height, m_width) |-> 0]
    /\ revealCalls = [p \in Coords(m_height, m_width) |-> 0]
    /\ ret = NoRet
    /\ everFlagged = FALSE

\* ---- Board::initialize ---------------------------------------------------
\* Step 1 of initialize(): every cell is reset.
Initialize ==
    /\ pc = "initialize"
    /\ m_cells' = [p \in Pos |-> ResetCell(m_cells[p])]
    /\ placed' = 0
    /\ dirty' = ((\E p \in Pos : m_cells[p].revealed) /\ Marked(m_cells) # {})
    /\ everFlagged' = FALSE
    /\ pc' = "place"
    /\ UNCHANGED <<ret, m_width, m_height, m_mineCount, q, won, cmd, pre, streak, pushed,
                   revealCalls>>

\* PlaceMine with the test of hasMine() left out: every sample is counted.
PlaceMine_CountsEverySample(rr, cc) ==
    /\ pc = "place"
    /\ placed < m_mineCount
    /\ m_cells' = [m_cells EXCEPT ![<<rr, cc>>].hasMine = TRUE]
    /\ placed' = placed + 1
    /\ UNCHANGED <<ret, everFlagged, m_width, m_height, m_mineCount, pc, q, won, cmd, pre, dirty,
                   streak, pushed, revealCalls>>

\* One iteration of the placement loop with the sample (rr, cc).
PlaceMine(rr, cc) ==
    /\ pc = "place"
    /\ placed < m_mineCount
    /\ IF ~m_cells[<<rr, cc>>].hasMine
       THEN /\ m_cells' = [m_cells EXCEPT ![<<rr, cc>>].hasMine = TRUE]
            /\ placed' = placed + 1
       ELSE UNCHANGED <<m_cells, placed>>
    /\ UNCHANGED <<ret, everFlagged, m_width, m_height, m_mineCount, pc, q, won, cmd, pre, dirty,
                   streak, pushed, revealCalls>>

\* InitializeReturn for a loop test written placed <= m_mineCount.
InitializeReturn_OffByOne ==
    /\ pc = "place"
    /\ ~(placed <= m_mineCount)
    /\ pc' = "initialized"
    /\ UNCHANGED <<ret, everFlagged, m_width, m_height, m_mineCount, m_cells, placed, q, won, cmd,
                   pre, dirty, streak, pushed, revealCalls>>

\* The loop test fails and initialize() returns.
InitializeReturn ==
    /\ pc = "place"
    /\ ~(placed < m_mineCount)
    /\ pc' = "initialized"
    /\ UNCHANGED <<ret, everFlagged, m_width, m_height, m_mineCount, m_cells, placed, q, won, cmd,
                   pre, dirty, streak, pushed, revealCalls>>

\* ---- MinesweeperWindow::eventFilter (right click) ------------------------
\* NextMark without the Question state: a flag is cleared by the next click.
NextMark_SkipsQuestion(st) == IF st = "None" THEN "Flag" ELSE "None"

\* The switch over the current mark.
NextMark(st) ==
    CASE st = "None"     -> "Flag"
      [] st = "Flag"     -> "Question"
      [] st = "Question" -> "None"

\* A right button press on the button of (r, c).
RightClick(r, c) ==
    /\ pc = "idle"
    /\ cmd' = [op |-> "right", r |-> r, c |-> c]
    /\ pre' = m_cells
    /\ m_cells' = [m_cells EXCEPT ![<<r, c>>].mark = NextMark(m_cells[<<r, c>>].mark)]
    /\ Cardinality(Marked(m_cells')) <= MaxMarked
    /\ streak' = IF m_width * m_height > MaxStreakCells THEN NoStreak
                 ELSE IF streak.n \in 1 .. 2 /\ streak.cell = <<r, c>>
                      THEN [streak EXCEPT !.n = @ + 1]
                      ELSE [cell |-> <<r, c>>, n |-> 1, start |-> m_cells[<<r, c>>].mark]
    /\ everFlagged' = (everFlagged \/ NextMark(m_cells[<<r, c>>].mark) = "Flag")
    /\ pc' = "ret"
    /\ UNCHANGED <<ret, m_width, m_height, m_mineCount, placed, q, won, dirty,
                   pushed, revealCalls>>

\* ---- MinesweeperWindow::onCellLeftClicked / revealCell -------------------
\* LeftClickIgnored without the isRevealed() half of the test.
LeftClickIgnored_OnlyFlag(cells, row, col) == cells[<<row, col>>].mark = "Flag"

\* LeftClickIgnored with a test for any mark instead of the Flag mark.
LeftClickIgnored_AnyMark(cells, row, col) ==
    cells[<<row, col>>].revealed \/ cells[<<row, col>>].mark # "None"

\* The test that makes onCellLeftClicked return without revealing.
LeftClickIgnored(cells, row, col) ==
    cells[<<row, col>>].revealed \/ cells[<<row, col>>].mark = "Flag"

\* RevealCell without the isMine() branch: a mine is revealed like a safe cell.
RevealCell_NoMineBranch(row, col) ==
    /\ m_cells' = [m_cells EXCEPT ![<<row, col>>].revealed = TRUE]
    /\ revealCalls' = [revealCalls EXCEPT ![<<row, col>>] = @ + 1]
    /\ IF neighborMineCount(m_cells', row, col) = 0
       THEN /\ pc' = "cascade"
            /\ q' = << <<row, col>> >>
            /\ pushed' = [pushed EXCEPT ![<<row, col>>] = @ + 1]
            /\ UNCHANGED won
       ELSE /\ pc' = "checkWin"
            /\ UNCHANGED <<q, pushed, won>>

\* revealCell(row, col) up to its call of gameOver, cascadeReveal or
\* checkWinCondition.
RevealCell(row, col) ==
    /\ m_cells' = [m_cells EXCEPT ![<<row, col>>].revealed = TRUE]
    /\ revealCalls' = [revealCalls EXCEPT ![<<row, col>>] = @ + 1]
    /\ IF m_cells[<<row, col>>].hasMine
       THEN /\ pc' = "gameOver"
            /\ won' = FALSE
            /\ UNCHANGED <<q, pushed>>
       ELSE IF neighborMineCount(m_cells', row, col) = 0
            THEN /\ pc' = "cascade"
                 /\ q' = << <<row, col>> >>
                 /\ pushed' = [pushed EXCEPT ![<<row, col>>] = @ + 1]
                 /\ UNCHANGED won
            ELSE /\ pc' = "checkWin"
                 /\ UNCHANGED <<q, pushed, won>>

\* A left click on the button of (row, col).
LeftClick(row, col) ==
    /\ pc = "idle"
    /\ cmd' = [op |-> "left", r |-> row, c |-> col]
    /\ pre' = m_cells
    /\ IF LeftClickIgnored(m_cells, row, col)
       THEN /\ pc' = "ret"
            /\ UNCHANGED <<m_cells, q, won, pushed, revealCalls>>
       ELSE RevealCell(row, col)
    /\ streak' = NoStreak
    /\ UNCHANGED <<ret, everFlagged, m_width, m_height, m_mineCount, placed, dirty>>

\* ---- MinesweeperWindow::cascadeReveal ------------------------------------
\* CascadeEligible without the test of the Flag mark.
CascadeEligible_IgnoresFlag(cells, n) == ~cells[n].revealed

\* CascadeEligible without the test of isRevealed().
CascadeEligible_IgnoresRevealed(cells, n) == cells[n].mark # "Flag"

\* The test a neighbour must pass to be revealed by the cascade.
CascadeEligible(cells, n) == ~cells[n].revealed /\ cells[n].mark # "Flag"

\* CascadeExpands with q.push never reached: only the origin is dequeued.
CascadeExpands_Never(cells, n) == FALSE

\* CascadeExpands without the test of the count: every revealed neighbour is pushed.
CascadeExpands_Always(cells, n) == TRUE

\* The test a neighbour just revealed must pass to be pushed on the queue.
CascadeExpands(cells, n) == neighborMineCount(cells, n[1], n[2]) = 0

\* The body of the two nested loops for the dequeued point p, from the
\* i-th offset on.  st = [cells, q, pushed, calls].
RECURSIVE VisitFrom(_, _, _)
VisitFrom(st, p, i) ==
    IF i > Len(Offsets) THEN st
    ELSE LET rr == p[1] + Offsets[i][1]
             cc == p[2] + Offsets[i][2]
             n  == <<rr, cc>>
         IN  IF ~inBounds(rr, cc) THEN VisitFrom(st, p, i + 1)
             ELSE IF CascadeEligible(st.cells, n)
                  THEN LET cells1 == [st.cells EXCEPT ![n].revealed = TRUE]
                           calls1 == [st.calls EXCEPT ![n] = @ + 1]
                       IN  IF CascadeExpands(cells1, n)
                           THEN VisitFrom([cells  |-> cells1,
                                           q      |-> Append(st.q, n),
                                           pushed |-> [st.pushed EXCEPT ![n] = @ + 1],
                                           calls  |-> calls1], p, i + 1)
                           ELSE VisitFrom([st EXCEPT !.cells = cells1,
                                                     !.calls = calls1], p, i + 1)
                  ELSE VisitFrom(st, p, i + 1)

\* CascadeStep without q.pop(): the front stays on the queue.
CascadeStep_NoPop ==
    /\ pc = "cascade"
    /\ q # << >>
    /\ LET st == VisitFrom([cells |-> m_cells, q |-> q,
                            pushed |-> pushed, calls |-> revealCalls], Head(q), 1)
       IN  /\ m_cells' = st.cells
           /\ q' = st.q
           /\ pushed' = st.pushed
           /\ revealCalls' = st.calls
           /\ pc' = IF st.q = << >> THEN "checkWin" ELSE "cascade"
    /\ UNCHANGED <<ret, everFlagged, m_width, m_height, m_mineCount, placed, won, cmd, pre, dirty, streak>>

\* One iteration of the while loop: pop the front, visit its neighbours,
\* test the queue again.
CascadeStep ==
    /\ pc = "cascade"
    /\ q # << >>
    /\ LET st == VisitFrom([cells |-> m_cells, q |-> Tail(q),
                            pushed |-> pushed, calls |-> revealCalls], Head(q), 1)
       IN  /\ m_cells' = st.cells
           /\ q' = st.q
           /\ pushed' = st.pushed
           /\ revealCalls' = st.calls
           /\ pc' = IF st.q = << >> THEN "checkWin" ELSE "cascade"
    /\ UNCHANGED <<ret, everFlagged, m_width, m_height, m_mineCount, placed, won, cmd, pre, dirty, streak>>

\* ---- MinesweeperWindow::checkWinCondition --------------------------------
CheckWinCondition ==
    /\ pc = "checkWin"
    /\ IF allNonMinesRevealed(m_cells)
       THEN pc' = "gameOver" /\ won' = TRUE
       ELSE pc' = "ret" /\ UNCHANGED won
    /\ UNCHANGED <<ret, everFlagged, m_width, m_height, m_mineCount, m_cells, placed, q, cmd, pre,
                   dirty, streak, pushed, revealCalls>>

\* ---- MinesweeperWindow::gameOver -----------------------------------------
\* ShowMines with setRevealed(r, c, isMine(r, c)) on every cell.
ShowMines_HidesSafeCells(cells) ==
    [p \in DOMAIN cells |-> [cells[p] EXCEPT !.revealed = cells[p].hasMine]]

\* ShowMines that leaves flagged mines alone.
ShowMines_SkipsFlagged(cells) ==
    [p \in DOMAIN cells |->
        IF cells[p].hasMine /\ cells[p].mark # "Flag"
        THEN [cells[p] EXCEPT !.revealed = TRUE] ELSE cells[p]]

\* ShowMines that also clears the mark of each mine it shows.
ShowMines_ClearsMarks(cells) ==
    [p \in DOMAIN cells |->
        IF cells[p].hasMine
        THEN [cells[p] EXCEPT !.revealed = TRUE, !.mark = "None"] ELSE cells[p]]

\* The cells after the loop that shows the mines of a lost game.
ShowMines(cells) ==
    [p \in DOMAIN cells |->
        IF cells[p].hasMine THEN [cells[p] EXCEPT !.revealed = TRUE] ELSE cells[p]]

\* gameOver(won) up to the message box.
GameOver ==
    /\ pc = "gameOver"
    /\ m_cells' = IF ~won THEN ShowMines(m_cells) ELSE m_cells
    /\ pc' = "dialog"
    /\ UNCHANGED <<ret, everFlagged, m_width, m_height, m_mineCount, placed, q, won, cmd, pre, dirty,
                   streak, pushed, revealCalls>>

\* reply == QMessageBox::Yes: resetGame() calls initialize().
ReplyYes ==
    /\ pc = "dialog"
    /\ pc' = "initialize"
    /\ won' = FALSE
    /\ cmd' = NoCmd
    /\ pre' = [p \in Pos |-> DefaultCell]
    /\ pushed' = NoCounts
    /\ revealCalls' = NoCounts
    /\ UNCHANGED <<ret, everFlagged, m_width, m_height, m_mineCount, m_cells, placed, q, dirty, streak>>

\* reply == QMessageBox::No: close().
ReplyNo ==
    /\ pc = "dialog"
    /\ pc' = "closed"
    /\ UNCHANGED <<ret, everFlagged, m_width, m_height, m_mineCount, m_cells, placed, q, won, cmd,
                   pre, dirty, streak, pushed, revealCalls>>

\* ---- return to the event loop --------------------------------------------
\* The handler (or the constructor) returns and the event loop waits again.
Return ==
    /\ pc \in {"ret", "initialized"}
    /\ pc' = "idle"
    /\ cmd' = NoCmd
    /\ pre' = [p \in Pos |-> DefaultCell]
    /\ dirty' = FALSE
    /\ pushed' = NoCounts
    /\ revealCalls' = NoCounts
    /\ UNCHANGED <<ret, everFlagged, m_width, m_height, m_mineCount, m_cells, placed, q, won, streak>>

Next ==
    \/ Initialize
    \/ \E rr \in 0 .. m_height - 1, cc \in 0 .. m_width - 1 : PlaceMine(rr, cc)
    \/ InitializeReturn
    \/ \E r \in 0 .. m_height - 1, c \in 0 .. m_width - 1 : RightClick(r, c)
    \/ \E r \in 0 .. m_height - 1, c \in 0 .. m_width - 1 : LeftClick(r, c)
    \/ CascadeStep
    \/ CheckWinCondition
    \/ GameOver
    \/ ReplyYes
    \/ ReplyNo
    \/ Return

Spec == Init /\ [][Next]_vars

\* The thread runs on: a handler that can take its next step takes it, no
\* operation suspends.  The random samples are fair: a coordinate whose
\* sample would place a mine keeps being drawn until it is.  The replies to
\* the dialog and the clicks are the user's and are under no fairness.
Fairness ==
    /\ WF_vars(Initialize)
    /\ \A rr \in 0 .. MaxCells - 1, cc \in 0 .. MaxCells - 1 :
          WF_vars(pc = "place" /\ inBounds(rr, cc) /\ PlaceMine(rr, cc))
    /\ WF_vars(InitializeReturn)
    /\ WF_vars(CascadeStep)
    /\ WF_vars(CheckWinCondition)
    /\ WF_vars(GameOver)

FairSpec == Spec /\ Fairness

\* Board::Board with any mine count: the constructor does not check it against
\* the number of cells.
InitAny ==
    /\ m_width \in 1 .. MaxCells
    /\ m_height \in 1 .. MaxCells
    /\ m_width * m_height <= MaxCells
    /\ m_mineCount \in 0 .. (m_width * m_height + MaxExcess)
    /\ m_cells = [p \in Coords(m_height, m_width) |-> DefaultCell]
    /\ pc = "initialize"
    /\ placed = 0
    /\ q = << >>
    /\ won = FALSE
    /\ cmd = NoCmd
    /\ pre = [p \in Coords(m_height, m_width) |-> DefaultCell]
    /\ dirty = FALSE
    /\ streak = NoStreak
    /\ pushed = [p \in Coords(m_height, m_width) |-> 0]
    /\ revealCalls = [p \in Coords(m_height, m_width) |-> 0]
    /\ ret = NoRet
    /\ everFlagged = FALSE

SpecAny == InitAny /\ [][Next]_vars

\* ---- the Board methods called directly ------------------------------------
\* Board is a public class: its methods can be called with any coordinates.
\* pc = "board" is a caller that holds a Board and is about to call one of
\* its methods; pc = "called" is the caller looking at what the call did.

\* What an out-of-range m_cells[row][col] can read.
JunkCells == [hasMine : BOOLEAN, revealed : BOOLEAN, mark : MarkState]

\* m_cells[row][col]: QVector::operator[] does not check the index in a
\* release build; junk is what a read outside the vector yields.
CellAt(cells, row, col, junk) ==
    IF inBounds(row, col) THEN cells[<<row, col>>] ELSE junk

\* Board::isMine, Board::isRevealed, Board::markState
isMine(cells, row, col, junk) == CellAt(cells, row, col, junk).hasMine
isRevealed(cells, row, col, junk) == CellAt(cells, row, col, junk).revealed
markState(cells, row, col, junk) == CellAt(cells, row, col, junk).mark

\* isClearedCell without the inBounds() test.
isClearedCell_NoBoundsTest(cells, row, col, junk) ==
    IF ~isRevealed(cells, row, col, junk) THEN FALSE
    ELSE neighborMineCount(cells, row, col) = 0

\* Board::isClearedCell
isClearedCell(cells, row, col, junk) ==
    IF ~inBounds(row, col) THEN FALSE
    ELSE IF ~isRevealed(cells, row, col, junk) THEN FALSE
    ELSE neighborMineCount(cells, row, col) = 0

\* The variables a direct call of a Board method leaves alone.
aside == <<m_width, m_height, m_mineCount, placed, q, won, pre, dirty, streak,
           pushed, revealCalls, everFlagged>>

Returned(v) == [status |-> "ok", value |-> v]
\* The index assertion of QVector::operator[] fails (a debug build).
Abort == [status |-> "abort", value |-> 0]

\* isMine, isRevealed or markState called with (row, col).
GetterCall(fn, row, col) ==
    /\ pc = "board"
    /\ pc' = "called"
    /\ cmd' = [op |-> fn, r |-> row, c |-> col]
    /\ \/ /\ ~inBounds(row, col)
          /\ ret' = Abort
       \/ \E junk \in IF inBounds(row, col) THEN {DefaultCell} ELSE JunkCells :
             ret' = Returned(CASE fn = "isMine"     -> isMine(m_cells, row, col, junk)
                               [] fn = "isRevealed" -> isRevealed(m_cells, row, col, junk)
                               [] fn = "markState"  -> markState(m_cells, row, col, junk))
    /\ UNCHANGED m_cells
    /\ UNCHANGED aside

\* The cells after cell p has its field set to v.
WithField(cells, fn, p, v) ==
    CASE fn = "setMine"      -> [cells EXCEPT ![p].hasMine = v]
      [] fn = "setRevealed"  -> [cells EXCEPT ![p].revealed = v]
      [] fn = "setMarkState" -> [cells EXCEPT ![p].mark = v]

\* setMine, setRevealed or setMarkState called with (row, col) and v.  Out of
\* range the write goes outside the vector: the assertion fails, or the call
\* returns and the write has landed outside the cells or on some cell.
SetterCall(fn, row, col, v) ==
    /\ pc = "board"
    /\ pc' = "called"
    /\ cmd' = [op |-> fn, r |-> row, c |-> col]
    /\ IF inBounds(row, col)
       THEN /\ m_cells' = WithField(m_cells, fn, <<row, col>>, v)
            /\ ret' = Returned(0)
       ELSE \/ ret' = Abort /\ UNCHANGED m_cells
            \/ ret' = Returned(0) /\ UNCHANGED m_cells
            \/ \E p \in Pos : ret' = Returned(0) /\ m_cells' = WithField(m_cells, fn, p, v)
    /\ Cardinality(Marked(m_cells')) <= MaxBoardMarked
    /\ UNCHANGED aside

\* neighborMineCount called with (row, col).
NeighborMineCountCall(row, col) ==
    /\ pc = "board"
    /\ pc' = "called"
    /\ cmd' = [op |-> "neighborMineCount", r |-> row, c |-> col]
    /\ ret' = Returned(neighborMineCount(m_cells, row, col))
    /\ UNCHANGED m_cells
    /\ UNCHANGED aside

\* allNonMinesRevealed called.
AllNonMinesRevealedCall ==
    /\ pc = "board"
    /\ pc' = "called"
    /\ cmd' = [op |-> "allNonMinesRevealed", r |-> 0, c |-> 0]
    /\ ret' = Returned(allNonMinesRevealed(m_cells))
    /\ UNCHANGED m_cells
    /\ UNCHANGED aside

\* isClearedCell called with (row, col).
IsClearedCellCall(row, col) ==
    /\ pc = "board"
    /\ pc' = "called"
    /\ cmd' = [op |-> "isClearedCell", r |-> row, c |-> col]
    /\ \E junk \in IF inBounds(row, col) THEN {DefaultCell} ELSE JunkCells :
          ret' = Returned(isClearedCell(m_cells, row, col, junk))
    /\ UNCHANGED m_cells
    /\ UNCHANGED aside

\* The caller goes on to its next call.
NextCall ==
    /\ pc = "called"
    /\ pc' = "board"
    /\ cmd' = NoCmd
    /\ ret' = NoRet
    /\ UNCHANGED m_cells
    /\ UNCHANGED aside

\* A Board as its constructor leaves it, in the hands of a direct caller.
InitBoard ==
    /\ m_width \in 1 .. MaxBoardCells
    /\ m_height \in 1 .. MaxBoardCells
    /\ m_width * m_height <= MaxBoardCells
    /\ m_mineCount = 0
    /\ m_cells = [p \in Coords(m_height, m_width) |-> DefaultCell]
    /\ pc = "board"
    /\ placed = 0
    /\ q = << >>
    /\ won = FALSE
    /\ cmd = NoCmd
    /\ pre = [p \in Coords(m_height, m_width) |-> DefaultCell]
    /\ dirty = FALSE
    /\ streak = NoStreak
    /\ pushed = [p \in Coords(m_height, m_width) |-> 0]
    /\ revealCalls = [p \in Coords(m_height, m_width) |-> 0]
    /\ ret = NoRet
    /\ everFlagged = FALSE

\* The coordinates the caller passes to the cell accessors: every cell, and
\* one coordinate beyond each edge of the grid.
AccessorArgs ==
    Pos \cup {<<-1, 0>>, <<m_height, 0>>, <<0, -1>>, <<0, m_width>>}

\* The predicates are called with coordinates in the grid and up to one step
\* outside it in every direction.
NextBoard ==
    \/ \E a \in AccessorArgs :
          \E fn \in {"isMine", "isRevealed", "markState"} : GetterCall(fn, a[1], a[2])
    \/ \E a \in AccessorArgs :
          \E v \in BOOLEAN : SetterCall("setMine", a[1], a[2], v)
    \/ \E a \in AccessorArgs :
          \E v \in BOOLEAN : SetterCall("setRevealed", a[1], a[2], v)
    \/ \E a \in AccessorArgs :
          \E v \in MarkState : SetterCall("setMarkState", a[1], a[2], v)
    \/ \E row \in -1 .. m_height, col \in -1 .. m_width : NeighborMineCountCall(row, col)
    \/ \E row \in -1 .. m_height, col \in -1 .. m_width : IsClearedCellCall(row, col)
    \/ AllNonMinesRevealedCall
    \/ NextCall

SpecBoard == InitBoard /\ [][NextBoard]_vars

\* A Board of any size up to MaxSide x MaxSide with any set of cells mined
\* (what initialize() or setMine calls can leave), nothing revealed or marked.
InitCount ==
    /\ m_width \in 1 .. MaxSide
    /\ m_height \in 1 .. MaxSide
    /\ m_cells \in [Coords(m_height, m_width) ->
                       {DefaultCell, [DefaultCell EXCEPT !.hasMine = TRUE]}]
    /\ m_mineCount = Cardinality({p \in Coords(m_height, m_width) : m_cells[p].hasMine})
    /\ pc = "board"
    /\ placed = 0
    /\ q = << >>
    /\ won = FALSE
    /\ cmd = NoCmd
    /\ pre = [p \in Coords(m_height, m_width) |-> DefaultCell]
    /\ dirty = FALSE
    /\ streak = NoStreak
    /\ pushed = [p \in Coords(m_height, m_width) |-> 0]
    /\ revealCalls = [p \in Coords(m_height, m_width) |-> 0]
    /\ ret = NoRet
    /\ everFlagged = FALSE

NextCount ==
    \/ \E row \in 0 .. m_height - 1, col \in 0 .. m_width - 1 :
          NeighborMineCountCall(row, col)
    \/ NextCall

SpecCount == InitCount /\ [][NextCount]_vars

\* ---- cascadeReveal in any traversal order ----------------------------------
\* The while loop of cascadeReveal with the two choices its code fixes left
\* open: which queue entry is taken next (the code takes q.front()) and in
\* which order the neighbours of that entry are examined (the code's two
\* nested loops).

\* The in-grid neighbours of p in the order the two nested loops reach them.
RECURSIVE NeighboursFrom(_, _)
NeighboursFrom(p, i) ==
    IF i > Len(Offsets) THEN << >>
    ELSE LET rr == p[1] + Offsets[i][1]
             cc == p[2] + Offsets[i][2]
         IN  IF inBounds(rr, cc) THEN << <<rr, cc>> >> \o NeighboursFrom(p, i + 1)
             ELSE NeighboursFrom(p, i + 1)

LoopOrder(p) == NeighboursFrom(p, 1)

\* Every order in which the in-grid neighbours of p can be examined.
Orders(p) ==
    LET lo == LoopOrder(p)
        ns == {lo[i] : i \in 1 .. Len(lo)}
    IN  {ord \in [1 .. Len(lo) -> ns] :
            \A i, j \in 1 .. Len(lo) : i # j => ord[i] # ord[j]}

\* VisitInOrder with a break after the first neighbour it reveals.
RECURSIVE VisitInOrder_StopsAtFirst(_, _, _)
VisitInOrder_StopsAtFirst(st, ord, i) ==
    IF i > Len(ord) THEN st
    ELSE LET n == ord[i]
         IN  IF CascadeEligible(st.cells, n)
             THEN LET cells1 == [st.cells EXCEPT ![n].revealed = TRUE]
                      calls1 == [st.calls EXCEPT ![n] = @ + 1]
                  IN  IF CascadeExpands(cells1, n)
                      THEN [cells  |-> cells1,
                            q      |-> Append(st.q, n),
                            pushed |-> [st.pushed EXCEPT ![n] = @ + 1],
                            calls  |-> calls1]
                      ELSE [st EXCEPT !.cells = cells1, !.calls = calls1]
             ELSE VisitInOrder_StopsAtFirst(st, ord, i + 1)

\* The body of the loops for a dequeued point whose in-grid neighbours are
\* examined in the order ord, from the i-th on.  st = [cells, q, pushed, calls].
RECURSIVE VisitInOrder(_, _, _)
VisitInOrder(st, ord, i) ==
    IF i > Len(ord) THEN st
    ELSE LET n == ord[i]
         IN  IF CascadeEligible(st.cells, n)
             THEN LET cells1 == [st.cells EXCEPT ![n].revealed = TRUE]
                      calls1 == [st.calls EXCEPT ![n] = @ + 1]
                  IN  IF CascadeExpands(cells1, n)
                      THEN VisitInOrder([cells  |-> cells1,
                                         q      |-> Append(st.q, n),
                                         pushed |-> [st.pushed EXCEPT ![n] = @ + 1],
                                         calls  |-> calls1], ord, i + 1)
                      ELSE VisitInOrder([st EXCEPT !.cells = cells1,
                                                   !.calls = calls1], ord, i + 1)
             ELSE VisitInOrder(st, ord, i + 1)

\* The queue without its k-th entry.
RemoveAt(queue, k) == SubSeq(queue, 1, k - 1) \o SubSeq(queue, k + 1, Len(queue))

\* One iteration of the while loop that takes the k-th entry of the queue and
\* examines its neighbours in the order ord.
CascadeStepAny(k, ord) ==
    /\ pc = "cascade"
    /\ k \in 1 .. Len(q)
    /\ ord \in Orders(q[k])
    /\ LET st == VisitInOrder([cells |-> m_cells, q |-> RemoveAt(q, k),
                               pushed |-> pushed, calls |-> revealCalls], ord, 1)
       IN  /\ m_cells' = st.cells
           /\ q' = st.q
           /\ pushed' = st.pushed
           /\ revealCalls' = st.calls
           /\ pc' = IF st.q = << >> THEN "checkWin" ELSE "cascade"
    /\ UNCHANGED <<ret, everFlagged, m_width, m_height, m_mineCount, placed, won, cmd,
                   pre, dirty, streak>>

\* The cells when the loop has run to its end from (cells, queue), taking
\* q.front() each time and examining neighbours in the order of the nested loops.
RECURSIVE FinishInLoopOrder(_, _)
FinishInLoopOrder(cells, queue) ==
    IF queue = << >> THEN cells
    ELSE LET st == VisitInOrder([cells |-> cells, q |-> Tail(queue),
                                 pushed |-> NoCounts, calls |-> NoCounts],
                                LoopOrder(Head(queue)), 1)
         IN  FinishInLoopOrder(st.cells, st.q)

\* The program with the cascade's traversal order left open.
NextOrder ==
    \/ Initialize
    \/ \E rr \in 0 .. m_height - 1, cc \in 0 .. m_width - 1 : PlaceMine(rr, cc)
    \/ InitializeReturn
    \/ \E r \in 0 .. m_height - 1, c \in 0 .. m_width - 1 : RightClick(r, c)
    \/ \E r \in 0 .. m_height - 1, c \in 0 .. m_width - 1 : LeftClick(r, c)
    \/ \E k \in 1 .. Len(q) : \E ord \in Orders(q[k]) : CascadeStepAny(k, ord)
    \/ CheckWinCondition
    \/ GameOver
    \/ ReplyYes
    \/ ReplyNo
    \/ Return

SpecOrder == Init /\ [][NextOrder]_vars

TypeOK ==
    /\ pc \in {"initialize", "place", "initialized", "idle", "ret", "cascade",
               "checkWin", "gameOver", "dialog", "closed", "board", "called"}
    /\ DOMAIN m_cells = Pos
    /\ \A p \in Pos : m_cells[p].mark \in MarkState
    /\ placed \in 0 .. m_mineCount
    /\ everFlagged \in BOOLEAN

\* ==== properties ===========================================================
\* The cell the click being handled is on.
Target == <<cmd.r, cmd.c>>

\* The in-grid cells at Chebyshev distance exactly 1 from p.
Nbrs(p) ==
    {n \in Pos : /\ n # p
                 /\ n[1] - p[1] \in {-1, 0, 1}
                 /\ n[2] - p[2] \in {-1, 0, 1}}

MinesAround(p) == Cardinality({n \in Nbrs(p) : m_cells[n].hasMine})
SafeZero(p) == ~m_cells[p].hasMine /\ MinesAround(p) = 0
Revealed(cells) == {p \in Pos : cells[p].revealed}
Mines == {p \in Pos : m_cells[p].hasMine}

\* The least set that contains S and every neighbour, in Ok, of one of its cells.
RECURSIVE RegionFrom(_, _)
RegionFrom(S, Ok) ==
    LET S2 == S \cup {n \in Ok : \E z \in S : n \in Nbrs(z)}
    IN  IF S2 = S THEN S ELSE RegionFrom(S2, Ok)

\* The click being handled is a left click that passed the guard of
\* onCellLeftClicked and started a cascade at its target.
CascadeRan == cmd.op = "left" /\ pushed[Target] = 1

\* C1: whenever initialize() returns, exactly m_mineCount distinct cells are
\* mined, every other cell is not, no cell is revealed and every mark is None.
C1_InitializePostcondition ==
    pc = "initialized" =>
        /\ Cardinality(Mines) = m_mineCount
        /\ \A p \in Pos : ~m_cells[p].revealed /\ m_cells[p].mark = "None"

\* initialize() has returned from a restart of a round that had revealed and
\* marked cells, with several mines to place.
C1_Witness == pc = "initialized" /\ dirty /\ m_mineCount >= 2

\* C2 as stated: when the cascade of a reveal has finished, every cell of the
\* target's 8-connected region of zero-count safe cells is revealed, and so is
\* every in-grid neighbour of a cell of that region.
C2_Original ==
    (pc = "checkWin" /\ CascadeRan) =>
        LET Z == RegionFrom({Target}, {p \in Pos : SafeZero(p)})
        IN  \A z \in Z : m_cells[z].revealed /\ \A n \in Nbrs(z) : m_cells[n].revealed

\* C2 amended: the region is grown from the target only through zero-count
\* cells that were hidden and not flagged when the click arrived; when the
\* cascade has finished the revealed cells are exactly those revealed before,
\* that region, and the neighbours of the region that are not flagged.
C2_CascadeRegion ==
    (pc = "checkWin" /\ CascadeRan) =>
        LET Ok == {p \in Pos : SafeZero(p) /\ ~pre[p].revealed /\ pre[p].mark # "Flag"}
            Z  == RegionFrom({Target}, Ok)
        IN  Revealed(m_cells) =
                Revealed(pre) \cup Z
                \cup {n \in Pos : pre[n].mark # "Flag" /\ \E z \in Z : n \in Nbrs(z)}

\* A cascade has finished that went on through a further zero-count cell and
\* revealed a bordering cell that has mines around it.
C2_Witness ==
    /\ pc = "checkWin" /\ CascadeRan
    /\ Cardinality({p \in Pos : pushed[p] = 1}) >= 2
    /\ \E n \in Pos : ~pre[n].revealed /\ m_cells[n].revealed /\ MinesAround(n) > 0

\* C3: in every iteration of the cascade, with p the point popped: no hidden
\* cell marked Flag becomes revealed, and every hidden neighbour of p marked
\* Question or None becomes revealed and, if its count is zero, is in the queue.
C3_FlagBlocksQuestionDoesNot ==
    [][pc = "cascade" =>
        /\ \A n \in Pos :
              (~m_cells[n].revealed /\ m_cells[n].mark = "Flag") => ~m_cells'[n].revealed
        /\ \A n \in Nbrs(Head(q)) :
              (~m_cells[n].revealed /\ m_cells[n].mark \in {"Question", "None"}) =>
                 /\ m_cells'[n].revealed
                 /\ MinesAround(n) = 0 => \E i \in 1 .. Len(q') : q'[i] = n]_vars

\* A cascade has finished in which a Question cell was revealed and expanded
\* and a hidden Flag cell next to an expanded cell was left hidden.
C3_Witness ==
    /\ pc = "checkWin" /\ CascadeRan
    /\ \E n \in Pos \ {Target} : pre[n].mark = "Question" /\ pushed[n] = 1
    /\ \E f \in Pos : /\ m_cells[f].mark = "Flag" /\ ~m_cells[f].revealed
                      /\ \E z \in Nbrs(f) : pushed[z] = 1

\* C4: a left click on a hidden, unflagged safe cell goes on to the cascade or
\* the win check, the cascade goes on to the win check, and the win check
\* reports Win exactly when every non-mine cell is revealed and Continue
\* (return to the event loop) otherwise.
C4_WinIffAllSafeRevealed ==
    [][/\ (/\ pc = "idle" /\ cmd'.op = "left"
           /\ ~m_cells[<<cmd'.r, cmd'.c>>].revealed
           /\ m_cells[<<cmd'.r, cmd'.c>>].mark # "Flag"
           /\ ~m_cells[<<cmd'.r, cmd'.c>>].hasMine)
          => (pc' \in {"cascade", "checkWin"} /\ m_cells'[<<cmd'.r, cmd'.c>>].revealed)
       /\ pc = "cascade" => pc' \in {"cascade", "checkWin"}
       /\ pc = "checkWin" =>
             IF \A p \in Pos : ~m_cells[p].hasMine => m_cells[p].revealed
             THEN pc' = "gameOver" /\ won' /\ m_cells' = m_cells
             ELSE pc' = "ret" /\ m_cells' = m_cells]_vars

\* The 1x3 board with its mine at column 2, flagged: the click on column 0
\* has revealed columns 0 and 1, column 2 is hidden, and Win is reported.
C4_Witness ==
    /\ m_height = 1 /\ m_width = 3 /\ Mines = {<<0, 2>>}
    /\ m_cells[<<0, 2>>].mark = "Flag"
    /\ cmd = [op |-> "left", r |-> 0, c |-> 0]
    /\ Revealed(pre) = {}
    /\ Revealed(m_cells) = {<<0, 0>>, <<0, 1>>}
    /\ pc = "gameOver" /\ won

C6_RevealRevealedIsNoOp ==
    [][(/\ pc = "idle" /\ cmd'.op = "left"
        /\ m_cells[<<cmd'.r, cmd'.c>>].revealed
        /\ ~m_cells[<<cmd'.r, cmd'.c>>].hasMine)
       => /\ m_cells' = m_cells
          /\ pc' = "ret"
          /\ q' = q /\ pushed' = pushed /\ revealCalls' = revealCalls]_vars

\* A left click on a revealed zero-count safe cell with a hidden, unflagged
\* neighbour (a cascade run again would reveal it) has returned.
C6_Witness ==
    /\ pc = "ret" /\ cmd.op = "left"
    /\ pre[Target].revealed /\ SafeZero(Target)
    /\ \E n \in Nbrs(Target) : ~m_cells[n].revealed /\ m_cells[n].mark # "Flag"
    /\ m_cells = pre

\* C7: a right click on a revealed cell changes no field of any cell.
C7_MarkRevealedIsNoOp ==
    [][(/\ pc = "idle" /\ cmd'.op = "right"
        /\ m_cells[<<cmd'.r, cmd'.c>>].revealed)
       => m_cells' = m_cells]_vars

\* The mark that follows m in the cycle None -> Flag -> Question -> None.
Successor(m) == IF m = "None" THEN "Flag" ELSE IF m = "Flag" THEN "Question" ELSE "None"

\* C8: a right click on a hidden cell moves its mark to the successor, and
\* after one, two and three consecutive right clicks on the same cell its mark
\* is the first, second and third successor of the mark the run started from
\* (the third being that mark itself).
C8_MarkCycle ==
    /\ (pc = "ret" /\ cmd.op = "right" /\ ~pre[Target].revealed) =>
          m_cells[Target].mark = Successor(pre[Target].mark)
    /\ (streak.n >= 1 /\ ~m_cells[streak.cell].revealed) =>
          m_cells[streak.cell].mark =
              IF streak.n = 1 THEN Successor(streak.start)
              ELSE IF streak.n = 2 THEN Successor(Successor(streak.start))
              ELSE streak.start

\* Three consecutive right clicks on a hidden cell that started at Flag.
C8_Witness ==
    /\ pc = "ret" /\ cmd.op = "right"
    /\ streak.n = 3 /\ streak.cell = Target /\ streak.start = "Flag"
    /\ ~m_cells[Target].revealed /\ m_cells[Target].mark = "Flag"

\* C9: no step other than the reset of initialize() hides a revealed cell.
C9_RevealedMonotonic ==
    [][pc # "initialize" =>
          \A p \in Pos : m_cells[p].revealed => m_cells'[p].revealed]_vars

\* A lost round in which a cascade and mark cycles took place: the mines are
\* shown and the safe cells revealed before are still revealed.
C9_Witness ==
    /\ pc = "dialog" /\ ~won
    /\ \A p \in Mines : m_cells[p].revealed
    /\ \E p \in Pos : SafeZero(p) /\ pre[p].revealed /\ m_cells[p].revealed
    /\ Marked(m_cells) # {}

\* C10: during one click no cell is pushed on the work queue more than once
\* and no cell is set revealed more than once; a cell never has more queue
\* entries than pushes.
C10_AtMostOnce ==
    /\ \A p \in Pos : pushed[p] <= 1 /\ revealCalls[p] <= 1
    /\ \A p \in Pos : Cardinality({i \in 1 .. Len(q) : q[i] = p}) <= pushed[p]

\* A cascade has finished in which two neighbouring cells were both expanded,
\* so each was examined, already revealed, from the other.
C10_Witness ==
    /\ pc = "checkWin" /\ CascadeRan
    /\ \E a \in Pos : \E b \in Nbrs(a) : pushed[a] = 1 /\ pushed[b] = 1

\* C11: every cascade terminates: once the cascade loop is entered, the queue
\* becomes empty and the reveal command gets to its end, which is the return
\* to the event loop or the game-over dialog.
C11_CascadeTerminates ==
    (pc = "cascade") ~> (q = << >> /\ pc \in {"ret", "dialog"})

\* A reveal command has returned to the event loop after a cascade of
\* several iterations that was cut short by a flagged cell.
C11_Witness ==
    /\ pc = "ret" /\ CascadeRan /\ q = << >>
    /\ Cardinality({p \in Pos : pushed[p] = 1}) >= 2
    /\ \E f \in Pos : m_cells[f].mark = "Flag" /\ ~m_cells[f].revealed

\* C17: with 0 <= m_mineCount < width * height and fair sampling,
\* initialize() returns; an iteration of the placement loop adds one to placed
\* when its sample was not mined and then mines it, and leaves placed and the
\* cells alone otherwise; the loop is left exactly when placed = m_mineCount.
C17_InitializeTerminates ==
    /\ (pc = "initialize") ~> (pc = "initialized")
    /\ [][pc = "place" =>
            /\ pc' = "place" =>
                 \/ /\ placed' = placed + 1
                    /\ \E p \in Pos : /\ ~m_cells[p].hasMine
                                      /\ m_cells' = [m_cells EXCEPT ![p].hasMine = TRUE]
                 \/ placed' = placed /\ m_cells' = m_cells
            /\ pc' # "place" =>
                 pc' = "initialized" /\ placed = m_mineCount /\ m_cells' = m_cells]_vars

\* initialize() has returned on a restart with all cells but one mined, which
\* takes samples of cells already mined.
C17_Witness ==
    /\ pc = "initialized" /\ dirty
    /\ m_mineCount = m_width * m_height - 1 /\ m_mineCount >= 3
    /\ placed = m_mineCount

\* C14 as stated: with m_mineCount >= width * height, initialize() never
\* returns.
C14_Original ==
    m_mineCount >= m_width * m_height => pc \in {"initialize", "place"}

\* C14 amended: with m_mineCount > width * height, initialize() never returns
\* (placed stops at the number of cells); with m_mineCount = width * height it
\* can return, and then every cell is mined.
C14_NeverReturnsAboveCapacity ==
    /\ m_mineCount > m_width * m_height =>
          pc \in {"initialize", "place"} /\ placed <= m_width * m_height
    /\ (m_mineCount = m_width * m_height /\ pc = "initialized") =>
          \A p \in Pos : m_cells[p].hasMine

\* The placement loop of a board with more mines than cells has mined every
\* cell and goes on sampling.
C14_Witness ==
    /\ m_mineCount > m_width * m_height /\ m_width * m_height >= 3
    /\ pc = "place" /\ placed = m_width * m_height
    /\ \A p \in Pos : m_cells[p].hasMine

\* C18: a left click on a hidden cell marked Flag, mined or not, changes no
\* cell and ends without cascade, win check or game over; a left click on a
\* hidden cell marked Question does what it does on one marked None: the cell
\* is revealed and the command goes on by its mine and its count alone.
C18_FlagBlocksRevealQuestionDoesNot ==
    [][(/\ pc = "idle" /\ cmd'.op = "left"
        /\ ~m_cells[<<cmd'.r, cmd'.c>>].revealed)
       => LET t == <<cmd'.r, cmd'.c>>
          IN  IF m_cells[t].mark = "Flag"
              THEN /\ m_cells' = m_cells /\ pc' = "ret"
                   /\ q' = q /\ pushed' = pushed /\ revealCalls' = revealCalls
              ELSE /\ m_cells' = [m_cells EXCEPT ![t].revealed = TRUE]
                   /\ pc' = IF m_cells[t].hasMine THEN "gameOver"
                            ELSE IF MinesAround(t) = 0 THEN "cascade"
                            ELSE "checkWin"]_vars

\* A left click on a hidden flagged mine has returned with the board as it
\* was, on a board where a cell marked Question was revealed before.
C18_Witness ==
    /\ pc = "ret" /\ cmd.op = "left"
    /\ pre[Target].mark = "Flag" /\ pre[Target].hasMine /\ ~m_cells[Target].revealed
    /\ m_cells = pre
    /\ \E p \in Pos : m_cells[p].mark = "Question" /\ m_cells[p].revealed

\* C19: the loss pass of gameOver sets revealed on every mined cell whatever
\* its mark and on no safe cell, changes nothing else, starts no cascade and
\* reports no win; the dialog is reached only when it is done, and the
\* restart-or-quit choice is taken only from the dialog.
C19_ShowAllMines ==
    /\ []((pc = "dialog" /\ ~won) => \A p \in Mines : m_cells[p].revealed)
    /\ [][/\ (pc = "gameOver" /\ ~won) =>
               /\ \A p \in Pos :
                     m_cells'[p] = [m_cells[p] EXCEPT
                                       !.revealed = m_cells[p].revealed \/ m_cells[p].hasMine]
               /\ q' = q /\ pushed' = pushed
               /\ pc' = "dialog" /\ ~won'
          /\ pc' \in {"initialize", "closed"} => pc = "dialog"]_vars

\* The dialog of a lost round: the clicked mine was marked Question, another
\* mine is flagged, both are revealed; a safe cell is still hidden.
C19_Witness ==
    /\ pc = "dialog" /\ ~won
    /\ pre[Target].mark = "Question" /\ m_cells[Target].hasMine /\ m_cells[Target].revealed
    /\ \E p \in Mines : m_cells[p].mark = "Flag" /\ m_cells[p].revealed /\ ~pre[p].revealed
    /\ \E p \in Pos : ~m_cells[p].hasMine /\ ~m_cells[p].revealed

\* C20: outside initialize() no step changes any cell's hasMine; a right
\* click changes no cell's revealed and no mark but its target's; every other
\* step (reveal, cascade, win check, loss pass, dialog, return) changes no mark.
C20_Frame ==
    [][pc \notin {"initialize", "place"} =>
          /\ \A p \in Pos : m_cells'[p].hasMine = m_cells[p].hasMine
          /\ IF pc = "idle" /\ cmd'.op = "right"
             THEN \A p \in Pos :
                     /\ m_cells'[p].revealed = m_cells[p].revealed
                     /\ p # <<cmd'.r, cmd'.c>> => m_cells'[p].mark = m_cells[p].mark
             ELSE \A p \in Pos : m_cells'[p].mark = m_cells[p].mark]_vars

\* A right click has changed the mark of its target on a board with mines,
\* a revealed cell and another marked cell.
C20_Witness ==
    /\ pc = "ret" /\ cmd.op = "right"
    /\ m_cells[Target].mark # pre[Target].mark
    /\ Mines # {} /\ Revealed(m_cells) # {}
    /\ \E p \in Pos \ {Target} : m_cells[p].mark # "None"

\* ---- the Board's methods called directly ----------------------------------

\* C12: neighborMineCount(row, col) with (row, col) in the grid returns the
\* number of mined cells among the in-grid cells at Chebyshev distance exactly
\* 1 from (row, col): the cell itself is not counted, neighbours outside the
\* grid are ignored, and the result lies in 0 .. 8.
C12_NeighborMineCount ==
    (pc = "called" /\ cmd.op = "neighborMineCount" /\ Target \in Pos) =>
        /\ ret.status = "ok"
        /\ ret.value = MinesAround(Target)
        /\ ret.value \in 0 .. 8

\* On a 3 x 3 board with every cell mined the count of the corner (0, 0),
\* itself mined and with five neighbours outside the grid, is 3.
C12_Witness ==
    /\ pc = "called" /\ cmd.op = "neighborMineCount"
    /\ m_width = 3 /\ m_height = 3
    /\ Target = <<0, 0>> /\ Mines = Pos /\ ret.value = 3

\* C13: allNonMinesRevealed() returns true if and only if every cell without
\* a mine is revealed, whatever the marks are and whether or not mined cells
\* are revealed.
C13_AllNonMinesRevealed ==
    (pc = "called" /\ cmd.op = "allNonMinesRevealed") =>
        /\ ret.status = "ok"
        /\ ret.value = (\A p \in Pos : ~m_cells[p].hasMine => m_cells[p].revealed)

\* allNonMinesRevealed() has returned true on a board whose cells are all
\* mined, none of them revealed and one of them marked.
C13_Witness ==
    /\ pc = "called" /\ cmd.op = "allNonMinesRevealed" /\ ret.value = TRUE
    /\ Cardinality(Pos) >= 2
    /\ Mines = Pos
    /\ Revealed(m_cells) = {}
    /\ Marked(m_cells) # {}

\* C15: isMine, isRevealed, markState, setMine, setRevealed, setMarkState or
\* neighborMineCount called with a coordinate outside the grid reports an
\* error (here: the call does not return) and leaves every cell as it was.
C15_OutOfRangeReportsError ==
    [][(/\ cmd'.op \in {"isMine", "isRevealed", "markState", "setMine",
                        "setRevealed", "setMarkState", "neighborMineCount"}
        /\ <<cmd'.r, cmd'.c>> \notin Pos
        /\ pc = "board")
          => (ret'.status = "abort" /\ m_cells' = m_cells)]_vars

\* C16: isClearedCell(row, col) returns true if and only if (row, col) is in
\* the grid, the cell is revealed and its neighbour mine count is zero; called
\* with a coordinate outside the grid it returns false and changes no cell.
C16_IsClearedCell ==
    [][(pc = "board" /\ cmd'.op = "isClearedCell") =>
          /\ ret'.status = "ok"
          /\ ret'.value = (/\ <<cmd'.r, cmd'.c>> \in Pos
                           /\ m_cells[<<cmd'.r, cmd'.c>>].revealed
                           /\ MinesAround(<<cmd'.r, cmd'.c>>) = 0)
          /\ m_cells' = m_cells]_vars

\* isClearedCell has returned false for a coordinate outside the grid that
\* touches a revealed cell with no mine around it.
C16_Witness ==
    /\ pc = "called" /\ cmd.op = "isClearedCell" /\ ret.value = FALSE
    /\ Target \notin Pos
    /\ \E p \in Pos : /\ p[1] - cmd.r \in {-1, 0, 1}
                      /\ p[2] - cmd.c \in {-1, 0, 1}
                      /\ m_cells[p].revealed
                      /\ MinesAround(p) = 0

\* ---- the round as a whole --------------------------------------------------

\* C21: as long as no loss has been reported in the round, no mined cell is
\* revealed: neither the cascade nor a reveal that continues or wins reveals
\* a mine, and when the win dialog is shown every mine is still hidden.
C21_NoMineRevealedBeforeLoss ==
    (\/ pc \in {"place", "initialized", "idle", "ret", "cascade", "checkWin"}
     \/ pc \in {"gameOver", "dialog", "closed"} /\ won)
        => \A p \in Mines : ~m_cells[p].revealed

\* The win dialog after a click whose cascade revealed several cells, on a
\* board with a mine marked Question next to a revealed cell: the mine is
\* still hidden.
C21_Witness ==
    /\ pc = "dialog" /\ won /\ CascadeRan
    /\ Cardinality(Revealed(m_cells) \ Revealed(pre)) >= 2
    /\ \E p \in Mines : /\ m_cells[p].mark = "Question"
                        /\ ~m_cells[p].revealed
                        /\ \E n \in Nbrs(p) : m_cells[n].revealed

\* C22: once the win or loss dialog is shown no click is handled on that
\* round's board: the next step is the reply, which either closes the window
\* (nothing changes after that) or calls initialize() with the board as it
\* was; no click is taken while initialize() runs, and the board it returns
\* has no revealed cell, no mark and m_mineCount mines.
C22_AfterGameOver ==
    [][/\ pc = "dialog" => pc' \in {"initialize", "closed"} /\ m_cells' = m_cells
       /\ pc = "closed" => UNCHANGED vars
       /\ pc \in {"dialog", "initialize", "place"} =>
             /\ cmd' = cmd \/ cmd' = NoCmd
             /\ pc' \in {"initialize", "closed", "place", "initialized"}
       /\ pc' = "initialized" =>
             /\ \A p \in Pos : ~m_cells'[p].revealed /\ m_cells'[p].mark = "None"
             /\ Cardinality({p \in Pos : m_cells'[p].hasMine}) = m_mineCount]_vars

\* initialize() has returned from a restart chosen in the dialog of a round
\* that had revealed and marked cells: the board is fresh and has its mines.
C22_Witness ==
    /\ pc = "initialized" /\ dirty
    /\ m_mineCount >= 1 /\ Cardinality(Mines) = m_mineCount
    /\ \A p \in Pos : ~m_cells[p].revealed /\ m_cells[p].mark = "None"

\* C23: between the commands of a round in which no cell has been given the
\* mark Flag and no loss has occurred, every revealed cell without a mine
\* whose neighbour mine count is zero has all of its in-grid neighbours
\* revealed.
C23_ZeroCellsAreOpenedUp ==
    (pc \in {"idle", "ret"} /\ ~everFlagged) =>
        \A p \in Pos :
            (m_cells[p].revealed /\ ~m_cells[p].hasMine /\ MinesAround(p) = 0)
                => \A n \in Nbrs(p) : m_cells[n].revealed

\* The event loop of a round without any Flag, on a board with a mine: a
\* cell with no mine around it is revealed and so are its neighbours, one of
\* them with a mine next to it, and another safe cell is still hidden.
C23_Witness ==
    /\ pc = "idle" /\ ~everFlagged
    /\ Mines # {}
    /\ \E p \in Pos : /\ m_cells[p].revealed /\ SafeZero(p)
                      /\ \A n \in Nbrs(p) : m_cells[n].revealed
                      /\ \E n \in Nbrs(p) : MinesAround(n) > 0
    /\ \E p \in Pos : ~m_cells[p].hasMine /\ ~m_cells[p].revealed

\* ---- traversal order of the cascade ----------------------------------------

\* C24: for the same board and origin the set of cells revealed when the
\* cascade finishes is the same whatever entry of the queue is taken at each
\* iteration and whatever order the neighbours of an entry are examined in:
\* from every point any traversal reaches, finishing the loop in the code's
\* order leaves the same cells revealed as running the code's order from the
\* start.
C24_OrderIndependent ==
    (pc \in {"cascade", "checkWin"} /\ CascadeRan) =>
        Revealed(FinishInLoopOrder(m_cells, q))
            = Revealed(FinishInLoopOrder([pre EXCEPT ![Target].revealed = TRUE],
                                         << Target >>))

\* A cascade from (0, 0) on a 2 x 2 board with (1, 0) flagged and hidden:
\* the neighbour (1, 1) was examined and pushed before (0, 1), the reverse of
\* the nested loops' order.
C24_Witness ==
    /\ pc = "cascade" /\ CascadeRan
    /\ m_width = 2 /\ m_height = 2
    /\ Target = <<0, 0>>
    /\ m_cells[<<1, 0>>].mark = "Flag" /\ ~m_cells[<<1, 0>>].revealed
    /\ q = << <<1, 1>>, <<0, 1>> >>

====
